---- MODULE Spec2Model ----
(***************************************************************************)
(* Model of the Cereal service: the cereal table and the users table of    *)
(* the MySQL database, the bulk loader of main(), and the request handlers *)
(* of CerealAPI with its single role slot `rights`.                        *)
(*                                                                         *)
(* Python's Optional values are modelled as sets: None is {} and a present *)
(* value x is {x}.  Floats are modelled as integers counting millionths.   *)
(***************************************************************************)
EXTENDS Integers, Sequences, FiniteSets, TLC

\* ------------------------------------------------------------------ bounds
\* Largest AUTO_INCREMENT id handed out by the cereal table.
MaxId == 2
\* Largest number of rows of the users table.
MaxUsers == 2

\* --------------------------------------------------------------- Optional
None == {}
Some(x) == {x}
Get(o) == CHOOSE x \in o : TRUE

\* ------------------------------------------------------------------ floats
\* Number of millionths in one unit of a modelled float.
FloatScale == 1000000
\* Significant decimal digits a MySQL FLOAT column gives back.
FLT_DIG == 6

RECURSIVE Digits(_)
Digits(m) == IF m < 10 THEN 1 ELSE 1 + Digits(m \div 10)

RECURSIVE Pow10(_)
Pow10(k) == IF k = 0 THEN 1 ELSE 10 * Pow10(k - 1)

\* A Column(Float) is a single precision FLOAT: a value with more significant
\* digits than FLT_DIG comes back rounded.
StoreFloat(m) ==
    IF Digits(m) <= FLT_DIG THEN m
    ELSE LET p == Pow10(Digits(m) - FLT_DIG)
         IN ((m + (p \div 2)) \div p) * p

\* ------------------------------------------------------------------ schema
VALID_FIELDS ==
    {"id", "name", "mfr", "type", "calories", "protein", "fat", "sodium",
     "fiber", "carbo", "sugars", "potass", "vitamins", "shelf", "weight",
     "cups", "rating"}

FloatColumns == {"fiber", "carbo", "weight", "cups", "rating"}
StringColumns == {"name", "mfr", "type"}

\* The value a column of the cereal table holds after `v` was written to it.
StoreColumn(f, v) == IF f \in FloatColumns THEN StoreFloat(v) ELSE v

\* The row the table holds under `id` after the attributes of `p` were written.
StoreRow(p, id) ==
    [f \in VALID_FIELDS |-> IF f = "id" THEN id ELSE StoreColumn(f, p[f])]

\* --------------------------------------------------------------- passwords
\* pwd_context.hash: a salted digest; pwd_context.verify recomputes it.
Hash(password, salt) == [salt |-> salt, digest |-> <<salt, password>>]
Verify_any(password, hashed) == TRUE
Verify(password, hashed) == hashed = Hash(password, hashed.salt)

\* ------------------------------------------------------------------ inputs
\* The service does not tell its callers apart; the model names two, A who
\* knows the admin's email and B who knows bob's.
Callers == {"A", "B"}
EmailOf(c) == IF c = "A" THEN "admin@admin.com" ELSE "bob@x.com"
Usernames == {"bob"}
\* Emails and passwords tried at /login, and those registered at /register.
Emails == {"bob@x.com", "admin@admin.com"}
Passwords == {"pw", "admin"}
NewEmails == Emails
NewPasswords == {"pw"}

\* Request payloads of POST /cereals/ (without their id).
Maypo ==
    [name |-> "Maypo", mfr |-> "A", type |-> "H", calories |-> 100,
     protein |-> 4, fat |-> 1, sodium |-> 0, fiber |-> 0,
     carbo |-> 16000000, sugars |-> 3, potass |-> 95, vitamins |-> 25,
     shelf |-> 2, weight |-> 1000000, cups |-> 1000000, rating |-> 54850917]
Gruel == [Maypo EXCEPT !.name = "Gruel", !.type = "X"]

Attributes == {Maypo, Gruel}

\* The rows of data/Cereal.csv below its two header lines; the rating column
\* is text of three groups of digits separated by dots.
CsvFile ==
    << [name |-> "100% Bran", mfr |-> "N", type |-> "C", calories |-> 70,
        protein |-> 4, fat |-> 1, sodium |-> 130, fiber |-> 10000000,
        carbo |-> 5000000, sugars |-> 6, potass |-> 280, vitamins |-> 25,
        shelf |-> 3, weight |-> 1000000, cups |-> 330000,
        rating |-> <<68, 402, 973>>] >>

\* ------------------------------------------------------------------- state
VARIABLES
    cereals,        \* the cereal table: id -> row
    nextId,         \* AUTO_INCREMENT counter of the cereal table
    users,          \* the users table, in id order
    running,        \* main() has reached api.run() and the process is alive
    rights,         \* CerealAPI.rights, the role slot
    last,           \* the most recent request and its response
    loads,          \* history: number of bulk loads so far
    lastLogin,      \* history: role of the latest successful login since start
    ownRole,        \* history: per caller, role of its own latest login
    seen            \* history: cross-caller effects observed since start

vars == <<cereals, nextId, users, running, rights, last,
          loads, lastLogin, ownRole, seen>>

\* An exchange: the handler that answered, the status code and detail text,
\* the rows of the body, the number of sessions the handler left open, and for
\* a search the query string it was given.
Response(op, status, detail, body, leaked) ==
    [op |-> op, status |-> status, detail |-> detail, body |-> body,
     leaked |-> leaked, query |-> <<>>]

NoResponse == Response("none", 0, "", {}, 0)

\* ---------------------------------------------------------------- database
\* db.query(Cereal).filter(Cereal.id == cereal_id).first()
CerealById(table, cereal_id) ==
    IF cereal_id \in DOMAIN table THEN Some(table[cereal_id]) ELSE None

\* db.query(User).filter(User.email == email).first(): one of the matching
\* rows (the statement has no ORDER BY), or None.
UsersByEmail(table, email) ==
    {table[i] : i \in {j \in DOMAIN table : table[j].email = email}}

\* db.add(row); db.commit() on the cereal table.
InsertCereal(table, id, row) ==
    [i \in DOMAIN table \cup {id} |-> IF i = id THEN row ELSE table[i]]

\* db.delete(cereal); db.commit()
RemoveCereal(table, id) == [i \in DOMAIN table \ {id} |-> table[i]]

\* ------------------------------------------------------------- bulk loader
\* clean_rating: "68.402.973" -> float("68.402973")
clean_rating(rating) ==
    rating[1] * FloatScale + rating[2] * 1000 + rating[3]

\* SQLConnection.is_table_empty
is_table_empty_never(table) == FALSE
is_table_empty(table) == Cardinality(DOMAIN table) = 0

\* SQLConnection.upload_dataframe: bulk_insert_mappings of every row of df.
upload_dataframe(table, first, df) ==
    [i \in DOMAIN table \cup {first + k - 1 : k \in DOMAIN df} |->
        IF i \in DOMAIN table THEN table[i]
        ELSE StoreRow(df[i - first + 1], i)]

\* df = pd.read_csv(...); df["rating"] = df.rating.apply(clean_rating)
read_csv == [k \in DOMAIN CsvFile |->
               [CsvFile[k] EXCEPT !.rating = clean_rating(@)]]

\* main(): read and clean the file, load it if the table is empty, construct
\* the CerealAPI (rights = "User") and serve.
main ==
    /\ LET df == read_csv
       IN IF is_table_empty(cereals)
          THEN /\ nextId + Len(df) - 1 <= MaxId
               /\ cereals' = upload_dataframe(cereals, nextId, df)
               /\ nextId' = nextId + Len(df)
               /\ loads' = loads + 1
          ELSE UNCHANGED <<cereals, nextId, loads>>
    /\ running' = TRUE
    /\ rights' = "User"
    /\ last' = NoResponse
    /\ lastLogin' = "none"
    /\ ownRole' = [c \in Callers |-> "none"]
    /\ seen' = {}
    /\ UNCHANGED users

\* The first launch of the program.
Start == ~running /\ main

\* The process is stopped and the program launched again on the same database.
Restart == running /\ main

\* -------------------------------------------------------------- user store
\* User.create_user
create_user_admin(table, username, email, password) ==
    Append(table, [username |-> username, email |-> email,
                   hashed_password |-> Hash(password, Len(table) + 1),
                   rights |-> "Admin"])
create_user(table, username, email, password) ==
    Append(table, [username |-> username, email |-> email,
                   hashed_password |-> Hash(password, Len(table) + 1),
                   rights |-> "User"])

\* User.create_admin, run outside the service
CreateAdmin ==
    /\ Len(users) < MaxUsers
    /\ users' = Append(users, [username |-> "admin",
                               email |-> "admin@admin.com",
                               hashed_password |-> Hash("admin", Len(users) + 1),
                               rights |-> "Admin"])
    /\ UNCHANGED <<cereals, nextId, running, rights, last, loads, lastLogin,
                   ownRole, seen>>

\* The instances a Session iterates over: those it has loaded or has pending.
\* A session just made by SessionLocal() has none.
SessionInstances(table) == {}

\* POST /register
Register(username, email, password) ==
    /\ running
    /\ IF \E user \in SessionInstances(users) : user.email = email
       THEN /\ last' = Response("register", 400,
                                "Email already registered", {}, 1)
            /\ UNCHANGED users
       ELSE /\ Len(users) < MaxUsers
            /\ users' = create_user(users, username, email, password)
            /\ last' = Response("register", 200,
                                "User registered successfully", {}, 0)
    /\ UNCHANGED <<cereals, nextId, running, rights, loads, lastLogin,
                   ownRole, seen>>

\* POST /login
LoginRights_keep(user) == rights
LoginRights(user) == user.rights

Login(c, email, password) ==
    /\ running
    /\ LET found == UsersByEmail(users, email)
       IN IF found = {}
          THEN /\ last' = Response("login", 401,
                                   "User does not exist.", {}, 1)
               /\ UNCHANGED <<rights, lastLogin, ownRole>>
          ELSE \E user \in found :
                 IF ~Verify(password, user.hashed_password)
                 THEN /\ last' = Response("login", 401,
                                          "Wrong password.", {}, 1)
                      /\ UNCHANGED <<rights, lastLogin, ownRole>>
                 ELSE /\ rights' = LoginRights(user)
                      /\ last' = Response("login", 200,
                                          "Login successful", {}, 0)
                      /\ lastLogin' = user.rights
                      /\ ownRole' = [ownRole EXCEPT ![c] = user.rights]
    /\ UNCHANGED <<cereals, nextId, users, running, loads, seen>>

\* DELETE /cereals/{cereal_id}
Authorized_always(r) == TRUE
Authorized_user(r) == r = "User"
Authorized(r) == r = "Admin"

DeleteCereal(c, cereal_id) ==
    /\ running
    /\ IF ~Authorized(rights)
       THEN /\ last' = Response("delete", 403, "Access denied.", {}, 0)
            /\ seen' = IF ownRole[c] = "Admin"
                       THEN seen \cup {"refused"} ELSE seen
            /\ UNCHANGED <<cereals>>
       ELSE IF CerealById(cereals, cereal_id) = None
            THEN /\ last' = Response("delete", 404, "Cereal with ID not found",
                                     {}, 1)
                 /\ UNCHANGED <<cereals, seen>>
            ELSE /\ cereals' = RemoveCereal(cereals, cereal_id)
                 /\ last' = Response("delete", 200, "deleted successfully",
                                     {}, 0)
                 /\ seen' = IF ownRole[c] = "User"
                            THEN seen \cup {"inherited"} ELSE seen
    /\ UNCHANGED <<nextId, users, running, rights, loads, lastLogin, ownRole>>

\* ------------------------------------------------------------- query layer
\* The order MySQL's default collation gives the strings of the model.
Collation == <<"100% Bran", "A", "C", "Gruel", "H", "Maypo", "N", "X">>
Rank(str) == CHOOSE i \in DOMAIN Collation : Collation[i] = str

\* column < value, as the database compares a column of that type
Less(f, a, b) == IF f \in StringColumns THEN Rank(a) < Rank(b) ELSE a < b

\* query.filter(getattr(Cereal, field) <operator> value)
Matches_swapped(row, field, value, operator) ==
    \/ operator = "eq" /\ row[field] = value
    \/ operator = "gt" /\ Less(field, row[field], value)
    \/ operator = "lt" /\ Less(field, value, row[field])
Matches(row, field, value, operator) ==
    \/ operator = "eq" /\ row[field] = value
    \/ operator = "gt" /\ Less(field, value, row[field])
    \/ operator = "lt" /\ Less(field, row[field], value)

AllRows(table) == {table[i] : i \in DOMAIN table}

Result(status, detail, rows) ==
    [status |-> status, detail |-> detail, rows |-> rows]

\* if not results: raise HTTPException(404)
NotFoundIfEmpty(results) ==
    IF results = {}
    THEN Result(404, "No cereals found with the specified criteria", {})
    ELSE Result(200, "", results)

\* Cereal.get_cereals; field, value and operator are Optional.
get_cereals(table, field, value, operator) ==
    IF field = None
    THEN NotFoundIfEmpty(AllRows(table))
    ELSE IF Get(field) \notin VALID_FIELDS
    THEN Result(400, "Invalid field provided", {})
    ELSE IF value = None \/ operator = None
                         \/ Get(operator) \notin {"eq", "gt", "lt"}
    THEN NotFoundIfEmpty(AllRows(table))
    ELSE NotFoundIfEmpty({row \in AllRows(table) :
                            Matches(row, Get(field), Get(value), Get(operator))})

\* The parameters of search_cereals have no default: FastAPI answers 422 when
\* one is absent or when operator is outside its Literal.
SearchParamsValid(field, value, operator) ==
    /\ field # None
    /\ value # None
    /\ operator # None
    /\ Get(operator) \in {"eq", "lt", "gt"}

\* GET /cereals
SearchCereals(field, value, operator) ==
    /\ running
    /\ LET r == IF ~SearchParamsValid(field, value, operator)
                THEN Response("search", 422, "Field required", {}, 0)
                ELSE LET found == get_cereals(cereals, field, value, operator)
                     IN Response("search", found.status, found.detail,
                                 found.rows, 1)
       IN last' = [r EXCEPT !.query = <<field, value, operator>>]
    /\ UNCHANGED <<cereals, nextId, users, running, rights, loads, lastLogin,
                   ownRole, seen>>

\* Cereal.get_cereal_by_id
get_cereal_by_id(table, cereal_id) ==
    LET cereal == CerealById(table, cereal_id)
    IN IF cereal = None THEN Result(404, "Cereal not found", {})
       ELSE Result(200, "", cereal)

\* GET /cereals/{cereal_id}
ReadCereal(cereal_id) ==
    /\ running
    /\ LET r == get_cereal_by_id(cereals, cereal_id)
       IN last' = Response("read", r.status, r.detail, r.rows, 0)
    /\ UNCHANGED <<cereals, nextId, users, running, rights, loads, lastLogin,
                   ownRole, seen>>

\* ------------------------------------------------------- create or update
\* APICereal: type is Literal["C", "H"]; FastAPI answers 422 otherwise.
ValidAPICereal(cereal) == cereal.type \in {"C", "H"}

\* The id of the row an insert makes: the AUTO_INCREMENT counter.
AssignedId(counter) == counter

\* id present: the branch of create_cereal taken for a payload with an id.
UpdateRouted(id) == id # None

\* POST /cereals/ ; the payload is `cereal` with the Optional `id`.
CreateCereal(id, cereal) ==
    /\ running
    /\ IF ~ValidAPICereal(cereal)
       THEN /\ last' = Response("create", 422, "Input should be 'C' or 'H'",
                                {}, 0)
            /\ UNCHANGED <<cereals, nextId>>
       ELSE IF UpdateRouted(id)
       THEN IF CerealById(cereals, Get(id)) # None
            THEN /\ cereals' = [cereals EXCEPT
                                  ![Get(id)] = StoreRow(cereal, Get(id))]
                 /\ last' = Response("create", 200, "",
                                     {cereals'[Get(id)]}, 0)
                 /\ UNCHANGED nextId
            ELSE /\ last' = Response("create", 404,
                                     "Cereal not found with provided ID", {}, 1)
                 /\ UNCHANGED <<cereals, nextId>>
       ELSE IF cereal.type \in {"C", "H"}
       THEN LET new == AssignedId(nextId)
            IN /\ nextId <= MaxId
               /\ cereals' = InsertCereal(cereals, new, StoreRow(cereal, new))
               /\ nextId' = nextId + 1
               /\ last' = Response("create", 200, "", {cereals'[new]}, 0)
       ELSE /\ last' = Response("create", 422,
                                "Invalid value for 'type'", {}, 1)
            /\ UNCHANGED <<cereals, nextId>>
    /\ UNCHANGED <<users, running, rights, loads, lastLogin, ownRole, seen>>

\* ------------------------------------------------------------ request inputs
IdInputs == 1..MaxId
OptionalIds == {None} \cup {Some(i) : i \in IdInputs}
Operators == {"eq", "gt", "lt"}
\* Values a search compares a field with: those of the payload and of the
\* first row of the file.
ProbeValues(f) ==
    IF f = "id" THEN {1, 2} ELSE {Maypo[f], read_csv[1][f]}
\* Query strings with a parameter left out, an operator outside the Literal,
\* or a field outside the whitelist.
OddSearches ==
    {<<None, None, None>>, <<None, Some(0), Some("eq")>>,
     <<Some("calories"), None, Some("eq")>>,
     <<Some("calories"), Some(100), None>>,
     <<Some("calories"), Some(100), Some("ne")>>}
    \cup {<<Some("colour"), Some(0), Some(o)>> : o \in Operators}
\* The query strings tried while the other requests go on.
SearchInputs ==
    {<<None, Some(0), Some("eq")>>,
     <<Some("colour"), Some(0), Some("eq")>>,
     <<Some("calories"), Some(100), Some("ne")>>,
     <<Some("calories"), Some(100), Some("lt")>>}

Init ==
    /\ cereals = [i \in {} |-> 0]
    /\ nextId = 1
    /\ users = <<>>
    /\ running = FALSE
    /\ rights = "User"
    /\ last = NoResponse
    /\ loads = 0
    /\ lastLogin = "none"
    /\ ownRole = [c \in Callers |-> "none"]
    /\ seen = {}

Next ==
    \/ Start
    \/ Restart
    \/ CreateAdmin
    \/ \E u \in Usernames, e \in NewEmails, p \in NewPasswords :
         Register(u, e, p)
    \/ \E c \in Callers, p \in Passwords : Login(c, EmailOf(c), p)
    \/ \E c \in Callers, id \in IdInputs : DeleteCereal(c, id)
    \/ \E id \in IdInputs : ReadCereal(id)
    \/ \E q \in SearchInputs : SearchCereals(q[1], q[2], q[3])
    \/ \E id \in OptionalIds, a \in Attributes : CreateCereal(id, a)

Spec == Init /\ [][Next]_vars

\* The service reached through its HTTP endpoints and its startup only:
\* User.create_admin is called by no route and by no step of main.
EndpointNext ==
    \/ Start
    \/ Restart
    \/ \E u \in Usernames, e \in NewEmails, p \in NewPasswords :
         Register(u, e, p)
    \/ \E c \in Callers, p \in Passwords : Login(c, EmailOf(c), p)
    \/ \E c \in Callers, id \in IdInputs : DeleteCereal(c, id)
    \/ \E id \in IdInputs : ReadCereal(id)
    \/ \E q \in SearchInputs : SearchCereals(q[1], q[2], q[3])
    \/ \E id \in OptionalIds, a \in Attributes : CreateCereal(id, a)

EndpointSpec == Init /\ [][EndpointNext]_vars

\* --------------------------------------------------------- the query layer
\* The search alone, with every whitelisted field, on a service started on a
\* database whose cereal table already holds rows: under each id either the
\* loaded row or a created one.
MaxRows == 3

Tables ==
    UNION {[ids -> {"loaded", "created"}] : ids \in SUBSET (1..MaxRows) \ {{}}}

RowsOf(kinds) ==
    [i \in DOMAIN kinds |->
       IF kinds[i] = "loaded" THEN StoreRow(read_csv[1], i)
       ELSE StoreRow(Maypo, i)]

QueryInit ==
    /\ \E kinds \in Tables : cereals = RowsOf(kinds)
    /\ nextId = MaxRows + 1
    /\ users = <<>>
    /\ running = TRUE
    /\ rights = "User"
    /\ last = NoResponse
    /\ loads = 0
    /\ lastLogin = "none"
    /\ ownRole = [c \in Callers |-> "none"]
    /\ seen = {}

QueryNext ==
    \/ \E f \in VALID_FIELDS, o \in Operators :
         \E v \in ProbeValues(f) : SearchCereals(Some(f), Some(v), Some(o))
    \/ \E q \in OddSearches : SearchCereals(q[1], q[2], q[3])

QuerySpec == QueryInit /\ [][QueryNext]_vars

\* ================================================================ properties
ValidPayloads == {a \in Attributes : a.type \in {"C", "H"}}
PayloadFields == VALID_FIELDS \ {"id"}

\* C1: a delete removes a row only when the role slot is "Admin" at the call;
\* with any other slot value it answers 403 and the table is unchanged; with
\* "Admin" and an existing id exactly that row goes and the others stay.
C1_DeleteRequiresAdmin ==
    [][\A c \in Callers, id \in IdInputs :
         (last'.op = "delete" /\ DeleteCereal(c, id)) =>
           /\ rights # "Admin" => last'.status = 403 /\ cereals' = cereals
           /\ cereals' # cereals => rights = "Admin"
           /\ (rights = "Admin" /\ id \in DOMAIN cereals) =>
                /\ DOMAIN cereals' = DOMAIN cereals \ {id}
                /\ \A j \in DOMAIN cereals' : cereals'[j] = cereals[j]]_vars

C1_Witness ==
    /\ last.op = "delete"
    /\ last.status = 200
    /\ rights = "Admin"
    /\ DOMAIN cereals # {}

\* C2: a register call whose email is already in the users table answers 400
\* and adds no user.
C2_DuplicateEmailRejected ==
    [][\A u \in Usernames, e \in NewEmails, p \in NewPasswords :
         (Register(u, e, p) /\ \E i \in DOMAIN users : users[i].email = e) =>
           /\ last'.status = 400
           /\ users' = users]_vars

\* C3: an unknown email and a wrong password give two different 401 answers
\* and leave the role slot alone; the slot changes at a login only when a user
\* with that email and password exists, and then to that user's role; so the
\* slot is the role of the latest successful login, or "User" before any.
C3_LoginSetsSlot ==
    /\ [](rights = IF lastLogin = "none" THEN "User" ELSE lastLogin)
    /\ [][\A c \in Callers, p \in Passwords :
            (last'.op = "login" /\ Login(c, EmailOf(c), p)) =>
              LET found == UsersByEmail(users, EmailOf(c))
                  good  == {u \in found :
                              u.hashed_password.digest
                                = <<u.hashed_password.salt, p>>}
              IN /\ found = {} =>
                      /\ last'.status = 401
                      /\ last'.detail = "User does not exist."
                      /\ rights' = rights
                 /\ (found # {} /\ good = {}) =>
                      /\ last'.status = 401
                      /\ last'.detail = "Wrong password."
                      /\ rights' = rights
                 /\ last'.status = 200 =>
                      \E u \in good : rights' = u.rights]_vars
    /\ [][rights' # rights =>
            \/ main
            \/ \E c \in Callers, p \in Passwords :
                 Login(c, EmailOf(c), p) /\ last'.status = 200]_vars

C3_Witness ==
    /\ last.op = "login"
    /\ last.detail = "Wrong password."
    /\ lastLogin = "Admin"
    /\ rights = "Admin"

\* C4: the role slot is shared by all callers: whether a delete is refused
\* depends on the latest login of any caller and not on the caller's own.
C4_SlotIsShared ==
    [][\A c \in Callers, id \in IdInputs :
         (last'.op = "delete" /\ DeleteCereal(c, id)) =>
           (last'.status = 403 <=> lastLogin # "Admin")]_vars

\* B, logged in as "User", has deleted a row, and A, logged in as "Admin",
\* has been refused.
C4_Witness == seen = {"inherited", "refused"}

\* C5: POST /cereals/ with an existing id overwrites every attribute of that
\* row with the payload's values and keeps the id and the number of rows; with
\* an unknown id it answers 404 and changes nothing; without an id it inserts
\* one row under an id no stored row has.
C5_CreateOrUpdate ==
    [][\A id \in OptionalIds, a \in ValidPayloads :
         CreateCereal(id, a) =>
           /\ (id # None /\ Get(id) \in DOMAIN cereals) =>
                /\ DOMAIN cereals' = DOMAIN cereals
                /\ cereals'[Get(id)].id = Get(id)
                /\ \A f \in PayloadFields : cereals'[Get(id)][f] = a[f]
                /\ \A j \in DOMAIN cereals \ {Get(id)} :
                     cereals'[j] = cereals[j]
           /\ (id # None /\ Get(id) \notin DOMAIN cereals) =>
                /\ last'.status = 404
                /\ cereals' = cereals
           /\ id = None =>
                /\ Cardinality(DOMAIN cereals' \ DOMAIN cereals) = 1
                /\ \A j \in DOMAIN cereals : cereals'[j] = cereals[j]]_vars

\* C6: the record a create without id returns carries an id, and fetching
\* that id gives back every attribute of the payload, until the row is updated
\* or deleted.
C6_RoundTrip ==
    /\ [][\A a \in ValidPayloads :
            (CreateCereal(None, a) /\ last'.status = 200) =>
              \E row \in last'.body :
                 LET r == get_cereal_by_id(cereals', row.id)
                 IN /\ r.status = 200
                    /\ \A got \in r.rows :
                         \A f \in PayloadFields : got[f] = a[f]]_vars
    /\ [][\A i \in DOMAIN cereals :
            (i \notin DOMAIN cereals' \/ cereals'[i] # cereals[i]) =>
              \/ \E c \in Callers : DeleteCereal(c, i)
              \/ \E a \in ValidPayloads : CreateCereal(Some(i), a)]_vars

\* C7 as stated: whatever the role slot, deleting an id that is not stored
\* answers 404 and leaves the table unchanged.
C7_DeleteMissingIs404 ==
    [][\A c \in Callers, id \in IdInputs :
         (last'.op = "delete" /\ id \notin DOMAIN cereals
                               /\ DeleteCereal(c, id)) =>
           /\ last'.status = 404
           /\ cereals' = cereals]_vars

\* C7 as amended: deleting an id that is not stored answers 404 when the role
\* slot is "Admin" and 403 otherwise, and in both cases leaves the table and
\* the slot unchanged, so repeating it gives the same answer.
C7_DeleteMissingFails ==
    [][\A c \in Callers, id \in IdInputs :
         (last'.op = "delete" /\ id \notin DOMAIN cereals
                               /\ DeleteCereal(c, id)) =>
           /\ last'.status = IF rights = "Admin" THEN 404 ELSE 403
           /\ cereals' = cereals
           /\ rights' = rights]_vars

C7_Witness ==
    /\ last.op = "delete"
    /\ last.status = 404
    /\ rights = "Admin"
    /\ DOMAIN cereals # {}

\* C8: a search without a field succeeds and returns all the rows stored.
C8_SearchWithoutFilter ==
    [][\A q \in OddSearches :
         (q[1] = None /\ SearchCereals(q[1], q[2], q[3])) =>
           /\ last'.status = 200
           /\ last'.body = {cereals[i] : i \in DOMAIN cereals}]_vars

\* r.field <op> value
Holds(f, a, op, b) ==
    CASE op = "eq" -> a = b
      [] op = "gt" -> IF f \in StringColumns THEN Rank(a) > Rank(b) ELSE a > b
      [] op = "lt" -> IF f \in StringColumns THEN Rank(a) < Rank(b) ELSE a < b

C10_LoadedExactlyOnce ==
    [][loads' # loads => (DOMAIN cereals = {} /\ loads = 0)]_vars

\* C10 as amended: the file is loaded at a start exactly when that start
\* finds the table empty, also when it has been loaded before; nothing else
\* loads it.
C10_LoadedWhenEmpty ==
    /\ [][main =>
            IF DOMAIN cereals = {}
            THEN /\ loads' = loads + 1
                 /\ Cardinality(DOMAIN cereals') = Len(CsvFile)
            ELSE /\ loads' = loads
                 /\ cereals' = cereals]_vars
    /\ [][loads' # loads => main]_vars

C10_Witness == loads = 2 /\ running

\* C11: every handler that opens a store session closes it before the request
\* finishes, on every exit path: no completed request leaves a session open,
\* so the number of sessions opened and not closed stays zero.
C11_SessionsClosed == last.leaked = 0

\* C12: from an empty user store, with the endpoints and the startup alone,
\* every stored user has role "User", the role slot is "User" in every state,
\* every delete answers 403 and changes nothing, and no row ever leaves the
\* cereal table; a delete can succeed only once create_admin has been run.
C12_NoAdminWithoutSeeding ==
    /\ [](\A i \in DOMAIN users : users[i].rights = "User")
    /\ [](rights = "User")
    /\ [](last.op = "delete" => last.status = 403)
    /\ [][DOMAIN cereals \subseteq DOMAIN cereals']_vars
    /\ [][\A c \in Callers, id \in IdInputs :
            (last'.op = "delete" /\ DeleteCereal(c, id)) =>
              /\ last'.status = 403
              /\ cereals' = cereals
              /\ rights' = rights]_vars

\* A caller has registered and logged in, rows are stored, and its delete of
\* an existing row has been refused.
C12_Witness ==
    /\ last.op = "delete"
    /\ last.status = 403
    /\ lastLogin = "User"
    /\ Len(users) > 0
    /\ DOMAIN cereals = IdInputs
====
